---- MODULE Spec2Model ----
(***************************************************************************)
(* S2T Accelerators MCP server.                                            *)
(*                                                                         *)
(* Six state machines share this module:                                   *)
(*   Spec          the streaming-HTTP binding of the entry point           *)
(*                 (src/src/http-server.ts): the session store, the /mcp   *)
(*                 handlers and the shutdown coordinator; FairSpec is      *)
(*                 Spec with the scheduling the event loop guarantees;     *)
(*   LegacySpec    the legacy SSE binding of the same file: the /sse and   *)
(*                 /messages handlers and the shutdown coordinator;        *)
(*   OriginSpec    the cross-origin middleware of the same file;           *)
(*   StartupSpec   either entry point from its configuration block on,     *)
(*                 and the HTTP entry point with both bindings once it     *)
(*                 listens;                                                *)
(*   EmbedSpec     the result formatting of handleEmbed                    *)
(*                 (src/src/handlers.ts);                                  *)
(*   DispatchSpec  the tool-call handler of createMcpServer                *)
(*                 (server-setup.ts, kept as src/unnamed/part_004) with    *)
(*                 the handlers of src/src/handlers.ts.                    *)
(*                                                                         *)
(* The MCP SDK transport is a collaborator.  What the model takes from it: *)
(*   - handleRequest of an initialize request on a fresh transport calls   *)
(*     sessionIdGenerator once and then onsessioninitialized;              *)
(*   - handleRequest of a DELETE calls close() and writes the 200 once     *)
(*     close() has resolved, in the same turn of the event loop;           *)
(*   - close() calls the onclose hook as its last step: a close that       *)
(*     resolves has run the hook, a close that rejects or never settles    *)
(*     has not reached it.                                                 *)
(***************************************************************************)
EXTENDS Naturals, Integers, Sequences, FiniteSets, TLC

(* ---------------------------- bounds ----------------------------------- *)

\* transports (and so session tokens) the streaming binding may create
MaxSessions == 2
\* legacy SSE connections that may be opened
MaxSse == 2
\* tool calls that may be in flight at once in DispatchSpec
MaxCalls == 1
\* chunks an embedding response may carry in EmbedSpec
MaxChunks == 3

(* ------------------------ requests and responses ----------------------- *)

\* no mcp-session-id header
NoToken == 0
Tokens == 1..MaxSessions
\* a token the generator never hands out
NeverIssued == MaxSessions + 1
\* what a client may put in the header: nothing, a token some session was
\* given (a client cannot guess a UUID before it exists), or a made-up one
TokenInputs(issued) == {NoToken} \cup (1..issued) \cup {NeverIssued}

TransportIds == 1..MaxSessions

JSONRPC_SERVER_ERROR == 0 - 32000
HTTP_BAD_REQUEST == 400
HTTP_NOT_FOUND == 404
HTTP_OK == 200

\* res.status(400).json({jsonrpc, error: {code: -32000, message}, id: null})
JsonRpcError(msg) ==
    [status |-> HTTP_BAD_REQUEST, code |-> JSONRPC_SERVER_ERROR, message |-> msg, by |-> 0]

PostRejection ==
    JsonRpcError("Bad request: no valid session. Send an initialize request first.")

GetRejection ==
    JsonRpcError("Bad request: invalid or missing session ID.")

DeleteRejection ==
    JsonRpcError("Bad request: invalid or missing session ID.")

\* the request was handed to transport tr, which writes the response itself
HandledBy(tr) ==
    [status |-> 0, code |-> 0, message |-> "", by |-> tr]

\* the 200 the transport writes once a DELETE has closed the session
Acknowledged(tr) ==
    [status |-> HTTP_OK, code |-> 0, message |-> "", by |-> tr]

NoResponse ==
    [status |-> 0, code |-> 0, message |-> "", by |-> 0]

(* ------------------------------ state ---------------------------------- *)

VARIABLES
    streamableTransports,   \* Map<token, transport>: function token -> transport id
    sseTransports,          \* Map<connectionId, transport>: function conn id -> protocol session id
    transports,             \* every StreamableHTTPServerTransport built so far
    serversCreated,         \* createMcpServer calls made by the streaming binding
    tokensIssued,           \* session ids the generator has handed out
    sseOpened,              \* legacy connections opened so far
    sseStreams,             \* legacy connections whose stream is still open
    deletes,                \* tokens of DELETE handlers about to run line 236
    terminated,             \* tokens whose DELETE was acknowledged
    shutdownPc,             \* "running" | "sweeping" | "closing" | "exited"
    sweep,                  \* close promises of the shutdown sweep: transport id -> state
    sweepSnapshot,          \* the store's tokens when the signal arrived
    timerArmed,             \* the force-exit timer is set
    listening,              \* the listener accepts new connections
    exitCode,               \* -1 while the process runs
    event,                  \* the last handler step and the response it wrote
    calls,                  \* DispatchSpec: the tool calls in flight
    cors,                   \* OriginSpec: the allow-list and the last pass of the middleware
    startup,                \* StartupSpec: the entry point, the API key and how far loading got
    embed                   \* EmbedSpec: an embedding response and what handleEmbed made of it

httpVars == <<streamableTransports, sseTransports, transports, serversCreated,
              tokensIssued, sseOpened, sseStreams, deletes, terminated,
              shutdownPc, sweep, sweepSnapshot, timerArmed, listening, exitCode,
              event, cors, startup, embed>>

vars == <<httpVars, calls>>

(* --------------------------- map helpers ------------------------------- *)

MapSet(m, k, v) == [x \in DOMAIN m \cup {k} |-> IF x = k THEN v ELSE m[x]]

MapDelete(m, k) == [x \in DOMAIN m \ {k} |-> m[x]]

EmptyMap == [x \in {} |-> 0]

Running == exitCode = -1

\* a new request can arrive: the process runs and httpServer.close() was not called
Accepting == Running /\ listening

Event(op, sid, init, resp) ==
    [op |-> op, sid |-> sid, init |-> init, resp |-> resp]

(* --------------------- streaming-HTTP binding -------------------------- *)

\* a transport no request has built yet
NoTransport == [created |-> FALSE, connected |-> FALSE, sessionId |-> NoToken,
                closeInvoked |-> FALSE]

Created == {tr \in TransportIds : transports[tr].created}

\* a generator that hands out one fixed id
SessionIdConstant(issued) == 1

\* sessionIdGenerator: () => randomUUID(): a token no session was given before
SessionIdGenerator(issued) == issued + 1

\* a callback that registers every session under one fixed key
OnSessionInitializedFixedKey(store, newSessionId, tr) == MapSet(store, 1, tr)

\* a callback that reads a transport variable shared by all requests: it
\* registers the transport built last
OnSessionInitializedShared(store, newSessionId, tr) ==
    MapSet(store, newSessionId, Cardinality(Created))

\* onsessioninitialized: streamableTransports.set(newSessionId, transport)
OnSessionInitialized(store, newSessionId, tr) == MapSet(store, newSessionId, tr)

\* a close hook that leaves the store alone
OnCloseKeepsEntry(store, tr) == store

\* a close hook whose find takes the first entry of the store, whatever its
\* transport
OnCloseFirstEntry(store, tr) ==
    IF store = EmptyMap THEN store
    ELSE MapDelete(store, CHOOSE k \in DOMAIN store : \A j \in DOMAIN store : k <= j)

\* transport.onclose: find the entry whose value is this transport, delete it
OnClose(store, tr) ==
    LET sids == {k \in DOMAIN store : store[k] = tr}
    IN  IF sids = {} THEN store
        ELSE MapDelete(store, CHOOSE k \in sids : \A j \in sids : k <= j)

\* what one call of transport.close() may do: how its promise settles and
\* whether the onclose hook ran
CloseOutcomes ==
    { [settle |-> "resolve", onclose |-> TRUE],
      [settle |-> "reject",  onclose |-> FALSE],
      [settle |-> "never",   onclose |-> FALSE] }

\* transport.close(): the store after the call
TransportClose(store, tr, oc) == IF oc.onclose THEN OnClose(store, tr) ELSE store

MarkClosed(trs, tr) == [trs EXCEPT ![tr].closeInvoked = TRUE]

\* a branch test that opens a session for any request without a token
PostBranchAnyBody(store, sid, init) ==
    IF sid # NoToken /\ sid \in DOMAIN store THEN "existing"
    ELSE IF sid = NoToken THEN "new"
    ELSE "reject"

\* a branch test that opens a session for an initialize request whose token
\* is not in the store
PostBranchStaleToken(store, sid, init) ==
    IF sid # NoToken /\ sid \in DOMAIN store THEN "existing"
    ELSE IF init THEN "new"
    ELSE "reject"

\* the branch app.post("/mcp") takes
PostBranch(store, sid, init) ==
    IF sid # NoToken /\ sid \in DOMAIN store THEN "existing"
    ELSE IF sid = NoToken /\ init THEN "new"
    ELSE "reject"

\* what app.post("/mcp") has answered when it returns or suspends
PostResponse(store, sid, init) ==
    CASE PostBranch(store, sid, init) = "existing" -> HandledBy(store[sid])
      [] PostBranch(store, sid, init) = "new" -> NoResponse
      [] OTHER -> PostRejection

\* app.post("/mcp"), up to its first await or its response
PostMcp(sid, init) ==
    /\ Accepting
    /\ event' = Event("POST", sid, init, PostResponse(streamableTransports, sid, init))
    /\ IF PostBranch(streamableTransports, sid, init) = "new"
       THEN /\ Cardinality(Created) < MaxSessions
            /\ LET tr == Cardinality(Created) + 1
               IN  transports' = [transports EXCEPT ![tr].created = TRUE]
            /\ serversCreated' = serversCreated + 1
       ELSE UNCHANGED <<transports, serversCreated>>
    /\ UNCHANGED <<streamableTransports, sseTransports, tokensIssued, sseOpened, sseStreams,
                   deletes, terminated, shutdownPc, sweep, sweepSnapshot,
                   timerArmed, listening, exitCode, calls, cors, startup, embed>>

\* app.post("/mcp") after await server.connect(transport): the transport
\* handles the initialize request, generates the token and registers itself
PostInitResume(tr) ==
    /\ Running
    /\ transports[tr].created
    /\ ~transports[tr].connected
    /\ LET newSessionId == SessionIdGenerator(tokensIssued)
       IN  /\ transports' = [transports EXCEPT ![tr].connected = TRUE,
                                               ![tr].sessionId = newSessionId]
           /\ tokensIssued' = tokensIssued + 1
           /\ streamableTransports' =
                  OnSessionInitialized(streamableTransports, newSessionId, tr)
    /\ event' = Event("POST_RESUME", NoToken, TRUE, HandledBy(tr))
    /\ UNCHANGED <<sseTransports, serversCreated, sseOpened, sseStreams, deletes, terminated,
                   shutdownPc, sweep, sweepSnapshot, timerArmed, listening,
                   exitCode, calls, cors, startup, embed>>

\* a check of the header alone, not of the store
GetResponseHeaderOnly(store, sid) ==
    IF sid = NoToken THEN GetRejection
    ELSE HandledBy(IF sid \in DOMAIN store THEN store[sid] ELSE 0)

\* app.get("/mcp")
GetResponse(store, sid) ==
    IF sid = NoToken \/ sid \notin DOMAIN store THEN GetRejection
    ELSE HandledBy(store[sid])

GetMcp(sid) ==
    /\ Accepting
    /\ event' = Event("GET", sid, FALSE, GetResponse(streamableTransports, sid))
    /\ UNCHANGED <<streamableTransports, sseTransports, transports, serversCreated,
                   tokensIssued, sseOpened, sseStreams, deletes, terminated, shutdownPc, sweep,
                   sweepSnapshot, timerArmed, listening, exitCode, calls, cors, startup, embed>>

\* app.delete("/mcp") with a missing or unknown token
DeleteUnknown(sid) ==
    /\ Accepting
    /\ (sid = NoToken \/ sid \notin DOMAIN streamableTransports)
    /\ event' = Event("DELETE", sid, FALSE, DeleteRejection)
    /\ UNCHANGED <<streamableTransports, sseTransports, transports, serversCreated,
                   tokensIssued, sseOpened, sseStreams, deletes, terminated,
                   shutdownPc, sweep, sweepSnapshot, timerArmed, listening, exitCode,
                   calls, cors, startup, embed>>

\* app.delete("/mcp") with a known token, up to the end of
\* await transport.handleRequest: the transport closes the session and, when
\* close() resolved, writes the 200.  A close() that rejects makes
\* handleRequest reject, which ends the handler; one that never settles
\* leaves the handler suspended for good.
DeleteMcp(sid, oc) ==
    /\ Accepting
    /\ sid # NoToken
    /\ sid \in DOMAIN streamableTransports
    /\ LET tr == streamableTransports[sid]
       IN  /\ streamableTransports' = TransportClose(streamableTransports, tr, oc)
           /\ transports' = MarkClosed(transports, tr)
           /\ deletes' = IF oc.settle = "resolve" THEN deletes \cup {sid} ELSE deletes
           /\ terminated' = IF oc.settle = "resolve" THEN terminated \cup {sid}
                            ELSE terminated
           /\ event' = Event("DELETE", sid, FALSE,
                             IF oc.settle = "resolve" THEN Acknowledged(tr)
                             ELSE HandledBy(tr))
    /\ UNCHANGED <<sseTransports, serversCreated, tokensIssued, sseOpened, sseStreams,
                   shutdownPc, sweep, sweepSnapshot, timerArmed, listening, exitCode,
                   calls, cors, startup, embed>>

\* app.delete("/mcp") after the await: streamableTransports.delete(sessionId)
DeleteResume(store, sid) == MapDelete(store, sid)

DeleteFinish(sid) ==
    /\ Running
    /\ sid \in deletes
    /\ streamableTransports' = DeleteResume(streamableTransports, sid)
    /\ deletes' = deletes \ {sid}
    /\ event' = Event("DELETE_DONE", sid, FALSE, NoResponse)
    /\ UNCHANGED <<sseTransports, transports, serversCreated, tokensIssued, sseOpened,
                   sseStreams, terminated, shutdownPc, sweep, sweepSnapshot,
                   timerArmed, listening, exitCode, calls, cors, startup, embed>>

(* ------------------------ legacy SSE binding --------------------------- *)

SseConnIds == 1..MaxSse

\* the protocol session id the SSE transport gives itself: another random
\* UUID, never equal to a connection id
SseSessionId(connectionId) == MaxSse + connectionId

\* what a client may put in ?sessionId= (0: the parameter is missing)
SseSessionInputs == 0..(2 * MaxSse + 1)

\* app.get("/sse")
SseOpen ==
    /\ Accepting
    /\ sseOpened < MaxSse
    /\ LET connectionId == sseOpened + 1
       IN  /\ sseTransports' = MapSet(sseTransports, connectionId, SseSessionId(connectionId))
           /\ event' = Event("SSE_OPEN", connectionId, FALSE, HandledBy(connectionId))
    /\ sseOpened' = sseOpened + 1
    /\ sseStreams' = sseStreams \cup {sseOpened + 1}
    /\ serversCreated' = serversCreated + 1
    /\ UNCHANGED <<streamableTransports, transports, tokensIssued, deletes, terminated,
                   shutdownPc, sweep, sweepSnapshot, timerArmed, listening, exitCode,
                   calls, cors, startup, embed>>

\* a close listener that leaves the store alone
SseOnCloseKeepsEntry(store, connectionId) == store

\* the close listener: sseTransports.delete(connectionId)
SseOnClose(store, connectionId) == MapDelete(store, connectionId)

\* res.on("close") fires for a connection
SseStreamClose(connectionId) ==
    /\ Running
    /\ connectionId \in sseStreams
    /\ sseStreams' = sseStreams \ {connectionId}
    /\ sseTransports' = SseOnClose(sseTransports, connectionId)
    /\ event' = Event("SSE_CLOSE", connectionId, FALSE, NoResponse)
    /\ UNCHANGED <<streamableTransports, transports, serversCreated, tokensIssued,
                   sseOpened, deletes, terminated, shutdownPc, sweep, sweepSnapshot,
                   timerArmed, listening, exitCode, calls, cors, startup, embed>>

\* a scan that compares the query parameter with the keys of the store
SseMatchByKey(store, sessionId) ==
    IF sessionId \in DOMAIN store THEN sessionId ELSE 0

\* the linear scan of app.post("/messages"): the first connection, in
\* insertion order, whose _sessionId is the query parameter; 0 when none
SseMatch(store, sessionId) ==
    LET hits == {c \in DOMAIN store : store[c] = sessionId}
    IN  IF hits = {} THEN 0 ELSE CHOOSE c \in hits : \A d \in hits : c <= d

MessagesResponse(store, sessionId) ==
    IF sessionId = 0
    THEN [status |-> HTTP_BAD_REQUEST, code |-> 0,
          message |-> "Missing sessionId query parameter", by |-> 0]
    ELSE IF SseMatch(store, sessionId) = 0
    THEN [status |-> HTTP_NOT_FOUND, code |-> 0,
          message |-> "Session not found. Connect via GET /sse first.", by |-> 0]
    ELSE HandledBy(SseMatch(store, sessionId))

\* app.post("/messages")
PostMessages(sessionId) ==
    /\ Accepting
    /\ event' = Event("MESSAGES", sessionId, FALSE, MessagesResponse(sseTransports, sessionId))
    /\ UNCHANGED <<streamableTransports, sseTransports, transports, serversCreated,
                   tokensIssued, sseOpened, sseStreams, deletes, terminated, shutdownPc, sweep,
                   sweepSnapshot, timerArmed, listening, exitCode, calls, cors, startup, embed>>

(* ----------------------- shutdown coordinator -------------------------- *)

RECURSIVE SortedSeq(_)
\* the keys of a Map in iteration order: tokens are inserted in the order
\* they are generated
SortedSeq(S) ==
    IF S = {} THEN <<>>
    ELSE LET m == CHOOSE x \in S : \A y \in S : x <= y
         IN  <<m>> \o SortedSeq(S \ {m})

RECURSIVE SweepAbortOnFailure(_, _, _, _)
\* the loop without its .catch: the first failing close ends the sweep
SweepAbortOnFailure(store, toks, ocs, acc) ==
    IF toks = <<>> THEN [store |-> store, closed |-> acc]
    ELSE LET sid == Head(toks)
         IN  IF sid \notin DOMAIN store
             THEN SweepAbortOnFailure(store, Tail(toks), ocs, acc)
             ELSE LET tr == store[sid]
                      next == [store  |-> TransportClose(store, tr, ocs[sid]),
                               closed |-> acc \cup {<<tr, ocs[sid].settle>>}]
                  IN  IF ocs[sid].settle = "reject" THEN next
                      ELSE SweepAbortOnFailure(next.store, Tail(toks), ocs, next.closed)

RECURSIVE SweepLoop(_, _, _, _)
\* for (const [sid, transport] of streamableTransports)
\*     push(transport.close().catch(log))
\* the iteration is live: an entry deleted before it is reached is skipped
SweepLoop(store, toks, ocs, acc) ==
    IF toks = <<>> THEN [store |-> store, closed |-> acc]
    ELSE LET sid == Head(toks)
         IN  IF sid \notin DOMAIN store
             THEN SweepLoop(store, Tail(toks), ocs, acc)
             ELSE LET tr == store[sid]
                  IN  SweepLoop(TransportClose(store, tr, ocs[sid]), Tail(toks), ocs,
                                acc \cup {<<tr, ocs[sid].settle>>})

\* shutdown(signal), up to await Promise.allSettled
Shutdown(ocs) ==
    /\ Running
    /\ shutdownPc = "running"
    /\ LET done == SweepLoop(streamableTransports,
                             SortedSeq(DOMAIN streamableTransports), ocs, {})
           swept == {c[1] : c \in done.closed}
       IN  /\ streamableTransports' = done.store
           /\ transports' = [tr \in TransportIds |->
                                IF tr \in swept
                                THEN [transports[tr] EXCEPT !.closeInvoked = TRUE]
                                ELSE transports[tr]]
           /\ sweep' = [tr \in swept |->
                           [settle  |-> (CHOOSE c \in done.closed : c[1] = tr)[2],
                            settled |-> FALSE]]
    /\ sweepSnapshot' = streamableTransports
    /\ shutdownPc' = "sweeping"
    /\ event' = Event("SHUTDOWN", NoToken, FALSE, NoResponse)
    /\ UNCHANGED <<sseTransports, serversCreated, tokensIssued, sseOpened, sseStreams, deletes,
                   terminated, timerArmed, listening, exitCode, calls, cors, startup, embed>>

\* a close promise of the sweep settles; .catch turns a rejection into a log line
SettleClose(tr) ==
    /\ Running
    /\ shutdownPc = "sweeping"
    /\ tr \in DOMAIN sweep
    /\ ~sweep[tr].settled
    /\ sweep[tr].settle # "never"
    /\ sweep' = [sweep EXCEPT ![tr].settled = TRUE]
    /\ event' = Event("CLOSE_SETTLED", transports[tr].sessionId, FALSE, NoResponse)
    /\ UNCHANGED <<streamableTransports, sseTransports, transports, serversCreated,
                   tokensIssued, sseOpened, sseStreams, deletes, terminated, shutdownPc,
                   sweepSnapshot, timerArmed, listening, exitCode, calls, cors, startup, embed>>

\* a coordinator that does not wait for the close promises
AllSettledNoWait == TRUE

\* await Promise.allSettled(streamableClosePromises) has resumed
AllSettled == \A tr \in DOMAIN sweep : sweep[tr].settled

\* streamableTransports.clear()
ClearStreamable(store) == EmptyMap

\* shutdown(signal) after the await: clear both stores, close the listener,
\* arm the force-exit timer
ShutdownAfterSweep ==
    /\ Running
    /\ shutdownPc = "sweeping"
    /\ AllSettled
    /\ streamableTransports' = ClearStreamable(streamableTransports)
    /\ sseTransports' = EmptyMap
    /\ listening' = FALSE
    /\ timerArmed' = TRUE
    /\ shutdownPc' = "closing"
    /\ event' = Event("SHUTDOWN_SWEPT", NoToken, FALSE, NoResponse)
    /\ UNCHANGED <<transports, serversCreated, tokensIssued, sseOpened, sseStreams, deletes,
                   terminated, sweep, sweepSnapshot, exitCode, calls, cors, startup, embed>>

\* every connection the listener accepted has ended: the legacy streams are
\* the connections that stay open
Drained == sseStreams = {}

\* the callback of httpServer.close: every connection has ended, exit(0)
ListenerClosed ==
    /\ Running
    /\ shutdownPc = "closing"
    /\ Drained
    /\ exitCode' = 0
    /\ shutdownPc' = "exited"
    /\ timerArmed' = FALSE
    /\ event' = Event("EXIT", NoToken, FALSE, NoResponse)
    /\ UNCHANGED <<streamableTransports, sseTransports, transports, serversCreated,
                   tokensIssued, sseOpened, sseStreams, deletes, terminated, sweep, sweepSnapshot,
                   listening, calls, cors, startup, embed>>

SHUTDOWN_TIMEOUT_MS == 10000

\* the setTimeout callback: exit(1)
ForceExit ==
    /\ Running
    /\ timerArmed
    /\ exitCode' = 1
    /\ shutdownPc' = "exited"
    /\ timerArmed' = FALSE
    /\ event' = Event("FORCE_EXIT", NoToken, FALSE, NoResponse)
    /\ UNCHANGED <<streamableTransports, sseTransports, transports, serversCreated,
                   tokensIssued, sseOpened, sseStreams, deletes, terminated, sweep, sweepSnapshot,
                   listening, calls, cors, startup, embed>>

(* --------------------- cross-origin middleware ------------------------- *)

\* an Origin header: absent, or a string; host is what new URL(origin)
\* gives as hostname, split at the dots, and << >> when the URL does not parse
NoOrigin == [present |-> FALSE, text |-> "", host |-> <<>>]
OriginOf(text, host) == [present |-> TRUE, text |-> text, host |-> host]

Origins ==
    { NoOrigin,
      OriginOf("https://app.example.com", <<"app", "example", "com">>),
      OriginOf("https://evil.example.net", <<"evil", "example", "net">>),
      OriginOf("https://s2tconsulting.com", <<"s2tconsulting", "com">>),
      OriginOf("https://dev.s2tconsulting.com", <<"dev", "s2tconsulting", "com">>),
      OriginOf("https://evils2tconsulting.com", <<"evils2tconsulting", "com">>),
      OriginOf("null", <<>>) }

\* the values S2T_CORS_ORIGINS may declare; the empty set when it is unset
AllowLists ==
    SUBSET {"https://app.example.com", "https://dev.s2tconsulting.com",
            "https://partner.example.org"}

Methods == {"GET", "POST", "DELETE", "OPTIONS"}

\* url.hostname === "s2tconsulting.com" || url.hostname.endsWith(".s2tconsulting.com")
S2tHost(host) ==
    /\ Len(host) >= 2
    /\ host[Len(host) - 1] = "s2tconsulting"
    /\ host[Len(host)] = "com"

\* isOriginAllowed(origin)
isOriginAllowed(allowed, origin) ==
    IF ~origin.present \/ origin.text = "" THEN TRUE
    ELSE IF allowed = {} THEN TRUE
    ELSE IF origin.text \in allowed THEN TRUE
    ELSE IF origin.host # <<>> /\ S2tHost(origin.host) THEN TRUE
    ELSE FALSE

\* the middleware: the Access-Control-Allow-Origin header it sets ("" when it
\* sets none), the status it ends the request with (0 when it does not), and
\* whether it calls next()
CorsPass(allowed, origin, method) ==
    [origin  |-> origin,
     method  |-> method,
     allowOrigin |-> IF isOriginAllowed(allowed, origin)
                     THEN (IF origin.present /\ origin.text # "" THEN origin.text ELSE "*")
                     ELSE "",
     status  |-> IF method = "OPTIONS" THEN 204 ELSE 0,
     next    |-> method # "OPTIONS"]

\* app.use((req, res, next) => ...) for one request
CorsMiddleware(origin, method) ==
    /\ cors' = [cors EXCEPT !.last = CorsPass(cors.allowed, origin, method),
                            !.seen = TRUE]
    /\ UNCHANGED <<streamableTransports, sseTransports, transports, serversCreated,
                   tokensIssued, sseOpened, sseStreams, deletes, terminated,
                   shutdownPc, sweep, sweepSnapshot, timerArmed, listening, exitCode,
                   event, calls, startup, embed>>

(* ------------------- tool dispatch (createMcpServer) ------------------- *)

\* JavaScript values an argument can hold
Undefined == [t |-> "undefined", s |-> "", n |-> 0]
JsNull == [t |-> "null", s |-> "", n |-> 0]
JsStr(str) == [t |-> "string", s |-> str, n |-> 0]
JsNum(num) == [t |-> "number", s |-> "", n |-> num]
JsBool(b) == [t |-> "boolean", s |-> "", n |-> IF b THEN 1 ELSE 0]
\* an array of one string
JsArr(str) == [t |-> "array", s |-> str, n |-> 1]

\* !v
Falsy(v) ==
    \/ v.t = "undefined"
    \/ v.t = "null"
    \/ v.t = "string" /\ v.s = ""
    \/ v.t = "number" /\ v.n = 0
    \/ v.t = "boolean" /\ v.n = 0

\* v || d
Or(v, d) == IF Falsy(v) THEN d ELSE v

\* v ?? d
Nullish(v, d) == IF v.t \in {"undefined", "null"} THEN d ELSE v

\* request.params.arguments: absent, or an object
NoArgs == [present |-> FALSE, fields |-> [f \in {} |-> Undefined]]
Args(fields) == [present |-> TRUE, fields |-> fields]

\* args.f
Get(args, f) == IF f \in DOMAIN args.fields THEN args.fields[f] ELSE Undefined

GuardedFields == {"action", "task_description", "error_message", "operation_id",
                  "operation", "agent_id", "prompt", "file_path"}

\* the fields some tool of handlers.ts declares as required
RequiredFields ==
    {"text", "errors", "description", "provider", "client_id", "redirect_uris",
     "scopes", "entities", "access_patterns", "policy_document", "action",
     "task_description", "error_message", "operation_id", "operation", "agent_id",
     "prompt", "file_path"}

\* the argument bags the calls are made with: none, an empty one, every
\* guarded field a string, every guarded field a number, two fields only,
\* every required field but no optional one, and optional fields given
ArgBags ==
    { NoArgs,
      Args([f \in {} |-> Undefined]),
      Args([f \in GuardedFields \cup {"text"} |-> JsStr("x")]),
      Args([f \in GuardedFields \cup {"text"} |-> JsNum(1)]),
      Args([f \in {"operation", "prompt"} |-> JsStr("x")]),
      Args([f \in RequiredFields \ {"operation"} |-> JsStr("x")]),
      Args([f \in {"action", "text", "environment", "chunk_size", "auto_execute",
                   "error_message"} |->
               CASE f = "environment" -> JsStr("production")
                 [] f = "chunk_size" -> JsNum(0)
                 [] f = "auto_execute" -> JsBool(FALSE)
                 [] OTHER -> JsStr("x")]) }

\* the cases of the switch of the CallTool handler
ToolSwitch(name) ==
    CASE name = "s2t_embed" -> "handleEmbed"
      [] name = "s2t_generate_cloudformation" -> "handleCloudFormation"
      [] name = "s2t_validate_oauth" -> "handleOAuthValidate"
      [] name = "s2t_validate_iam_policy" -> "handleIamPolicyValidate"
      [] name = "s2t_validate_mfa_compliance" -> "handleMfaCompliance"
      [] name = "s2t_generate_dynamodb_design" -> "handleDynamoDbDesign"
      [] name = "s2t_analyze_error_patterns" -> "handleErrorPatterns"
      [] name = "s2t_check_data_lake_readiness" -> "handleDataLakeReadiness"
      [] name = "s2t_catalog" -> "handleCatalog"
      [] name = "s2t_usage" -> "handleUsage"
      [] name = "s2t_classify_action_risk" -> "handleRiskClassify"
      [] name = "s2t_route_task_to_agent" -> "handleTaskRouting"
      [] name = "s2t_predict_system_issues" -> "handlePredictIssues"
      [] name = "s2t_attempt_auto_recovery" -> "handleAutoRecovery"
      [] name = "s2t_execute_with_resilience" -> "handleResilienceExecute"
      [] name = "s2t_manage_agent_memory" -> "handleAgentMemory"
      [] name = "s2t_submit_agent_task" -> "handleAgentTask"
      [] name = "s2t_create_trace_context" -> "handleTraceContext"
      [] name = "s2t_acquire_file_lock" -> "handleFileLock"
      [] name = "s2t_validate_cli_readiness" -> "handleCliReadiness"
      [] name = "aci_classify_decision" -> "handleAciClassify"
      [] name = "aci_financial_gate" -> "handleAciFinancialGate"
      [] name = "aci_compliance_check" -> "handleAciComplianceCheck"
      [] name = "aci_route_domain" -> "handleAciRouteDomain"
      [] name = "aci_parallel_review" -> "handleAciParallelReview"
      [] name = "aci_synthesize_reviews" -> "handleAciSynthesizeReviews"
      [] name = "aci_log_decision" -> "handleAciLogDecision"
      [] name = "aci_recall_precedent" -> "handleAciRecallPrecedent"
      [] name = "aci_record_outcome" -> "handleAciRecordOutcome"
      [] name = "aci_estimate_blast_radius" -> "handleAciBlastRadius"
      [] name = "aci_generate_rollback" -> "handleAciRollback"
      [] name = "aci_governance_health" -> "handleAciGovernanceHealth"
      [] name = "s2t_interview_create" -> "handleInterviewCreate"
      [] name = "s2t_interview_message" -> "handleInterviewMessage"
      [] name = "s2t_interview_summary" -> "handleInterviewSummary"
      [] name = "s2t_interview_list" -> "handleInterviewList"
      [] OTHER -> "default"

\* the case labels of the switch, in its order
CaseLabels ==
    <<"s2t_embed", "s2t_generate_cloudformation", "s2t_validate_oauth",
      "s2t_validate_iam_policy", "s2t_validate_mfa_compliance",
      "s2t_generate_dynamodb_design", "s2t_analyze_error_patterns",
      "s2t_check_data_lake_readiness", "s2t_catalog", "s2t_usage",
      "s2t_classify_action_risk", "s2t_route_task_to_agent",
      "s2t_predict_system_issues", "s2t_attempt_auto_recovery",
      "s2t_execute_with_resilience", "s2t_manage_agent_memory",
      "s2t_submit_agent_task", "s2t_create_trace_context", "s2t_acquire_file_lock",
      "s2t_validate_cli_readiness", "aci_classify_decision", "aci_financial_gate",
      "aci_compliance_check", "aci_route_domain", "aci_parallel_review",
      "aci_synthesize_reviews", "aci_log_decision", "aci_recall_precedent",
      "aci_record_outcome", "aci_estimate_blast_radius", "aci_generate_rollback",
      "aci_governance_health", "s2t_interview_create", "s2t_interview_message",
      "s2t_interview_summary", "s2t_interview_list">>

\* a switch that binds the remote tools of handlers.ts only
HandlerOfCoreOnly(name) ==
    IF ToolSwitch(name) \in
           {"handleEmbed", "handleCloudFormation", "handleOAuthValidate",
            "handleIamPolicyValidate", "handleMfaCompliance", "handleDynamoDbDesign",
            "handleErrorPatterns", "handleDataLakeReadiness", "handleCatalog",
            "handleUsage", "handleRiskClassify", "handleTaskRouting",
            "handlePredictIssues", "handleAutoRecovery", "handleResilienceExecute",
            "handleAgentMemory", "handleAgentTask", "handleTraceContext",
            "handleFileLock", "handleCliReadiness"}
    THEN ToolSwitch(name)
    ELSE "default"

\* a lookup that folds the case of the name before the switch
HandlerOfIgnoreCase(name) ==
    ToolSwitch(IF name = "S2T_EMBED" THEN "s2t_embed" ELSE name)

\* switch (name): the handler a name is bound to, by exact match
HandlerOf(name) == ToolSwitch(name)

\* the names of the TOOLS list, in its order
ToolNames ==
    <<"s2t_embed", "s2t_analyze_error_patterns", "s2t_generate_cloudformation",
      "s2t_validate_oauth", "s2t_generate_dynamodb_design",
      "s2t_check_data_lake_readiness", "s2t_validate_iam_policy",
      "s2t_validate_mfa_compliance", "s2t_validate_cli_readiness", "s2t_catalog",
      "s2t_usage", "s2t_classify_action_risk", "s2t_route_task_to_agent",
      "s2t_predict_system_issues", "s2t_attempt_auto_recovery",
      "s2t_execute_with_resilience", "s2t_manage_agent_memory",
      "s2t_submit_agent_task", "s2t_create_trace_context", "s2t_acquire_file_lock",
      "aci_classify_decision", "aci_financial_gate", "aci_compliance_check",
      "aci_route_domain", "aci_parallel_review", "aci_synthesize_reviews",
      "aci_log_decision", "aci_recall_precedent", "aci_record_outcome",
      "aci_estimate_blast_radius", "aci_generate_rollback", "aci_governance_health",
      "s2t_interview_create", "s2t_interview_message", "s2t_interview_summary",
      "s2t_interview_list">>

Registered == {ToolNames[i] : i \in DOMAIN ToolNames}

\* the names calls are made with: the tools of handlers.ts that check their
\* arguments, some that do not, one ACI tool, one interview tool, and
\* names the switch does not know (one differs from a known name by case only)
UnknownNames == {"s2t_does_not_exist", "S2T_EMBED", ""}

CalledNames ==
    {"s2t_embed", "s2t_catalog", "s2t_validate_cli_readiness",
     "s2t_classify_action_risk", "s2t_route_task_to_agent", "s2t_attempt_auto_recovery",
     "s2t_execute_with_resilience", "s2t_manage_agent_memory", "s2t_submit_agent_task",
     "s2t_acquire_file_lock", "aci_classify_decision", "s2t_interview_list"}
        \cup UnknownNames

\* every required field of some tool, and no optional one
RequiredOnly == Args([f \in RequiredFields \ {"operation"} |-> JsStr("x")])

\* the tools whose handlers check required strings
GuardedNames ==
    {"s2t_classify_action_risk", "s2t_route_task_to_agent", "s2t_attempt_auto_recovery",
     "s2t_execute_with_resilience", "s2t_manage_agent_memory", "s2t_submit_agent_task",
     "s2t_acquire_file_lock"}

\* bags for the guards: every guarded field the empty string, every guarded
\* field null, the second of two required fields alone, and the first of two
\* given with the second empty or not a string
GuardBags ==
    { Args([f \in GuardedFields |-> JsStr("")]),
      Args([f \in GuardedFields |-> JsNull]),
      Args([f \in {"agent_id"} |-> JsStr("agent-1")]),
      Args([f \in {"prompt"} |-> JsStr("do it")]),
      Args([f \in {"operation", "agent_id", "prompt"} |->
               CASE f = "operation" -> JsStr("store")
                 [] f = "agent_id" -> JsStr("")
                 [] OTHER -> JsNum(7)]) }

\* calls that supply optional fields: custom chunk settings, an overlap of 0,
\* an empty context and an empty namespace
OptionalInputs ==
    { <<"s2t_embed",
        Args([f \in {"text", "model", "chunk_size", "chunk_overlap"} |->
                 CASE f = "text" -> JsStr("Test")
                   [] f = "model" -> JsStr("amazon.titan-embed-text-v1")
                   [] f = "chunk_size" -> JsNum(256)
                   [] OTHER -> JsNum(25)])>>,
      <<"s2t_embed",
        Args([f \in {"text", "chunk_overlap"} |->
                 IF f = "text" THEN JsStr("Test") ELSE JsNum(0)])>>,
      <<"s2t_classify_action_risk",
        Args([f \in {"action", "context"} |->
                 IF f = "action" THEN JsStr("deploy") ELSE JsStr("")])>>,
      <<"s2t_manage_agent_memory",
        Args([f \in {"operation", "agent_id", "namespace"} |->
                 IF f = "namespace" THEN JsStr("") ELSE JsStr("store")])>> }

\* the calls made to the handlers of handlers.ts: the names above with every
\* bag, every other tool of handlers.ts with its required fields alone, the
\* guarded tools with the bags for the guards, and the calls with optional
\* fields
CallInputs ==
    (CalledNames \X ArgBags) \cup ({ToolNames[i] : i \in 1..20} \X {RequiredOnly})
        \cup (GuardedNames \X GuardBags) \cup OptionalInputs

\* handlers of handlers.ts that take no arguments
NoArgHandlers == {"handleCatalog", "handleUsage"}

\* handlers whose code is in handlers.ts
SourceHandlers ==
    {"handleEmbed", "handleCloudFormation", "handleOAuthValidate",
     "handleIamPolicyValidate", "handleMfaCompliance", "handleDynamoDbDesign",
     "handleErrorPatterns", "handleDataLakeReadiness", "handleCatalog", "handleUsage",
     "handleRiskClassify", "handleTaskRouting", "handlePredictIssues",
     "handleAutoRecovery", "handleResilienceExecute", "handleAgentMemory",
     "handleAgentTask", "handleTraceContext", "handleFileLock", "handleCliReadiness"}

\* the interview handlers of local-handlers.ts make no remote call
LocalHandlers ==
    {"handleInterviewCreate", "handleInterviewMessage", "handleInterviewSummary",
     "handleInterviewList"}

\* guards that check the second of two required fields first
GuardsReordered(h) ==
    CASE h = "handleRiskClassify" -> <<"action">>
      [] h = "handleTaskRouting" -> <<"task_description">>
      [] h = "handleAutoRecovery" -> <<"error_message">>
      [] h = "handleResilienceExecute" -> <<"operation_id">>
      [] h = "handleAgentMemory" -> <<"agent_id", "operation">>
      [] h = "handleAgentTask" -> <<"prompt", "agent_id">>
      [] h = "handleFileLock" -> <<"file_path">>
      [] OTHER -> <<>>

\* the required-string guards of a handler, in the order the code checks them
Guards(h) ==
    CASE h = "handleRiskClassify" -> <<"action">>
      [] h = "handleTaskRouting" -> <<"task_description">>
      [] h = "handleAutoRecovery" -> <<"error_message">>
      [] h = "handleResilienceExecute" -> <<"operation_id">>
      [] h = "handleAgentMemory" -> <<"operation", "agent_id">>
      [] h = "handleAgentTask" -> <<"agent_id", "prompt">>
      [] h = "handleFileLock" -> <<"file_path">>
      [] OTHER -> <<>>

\* the first property a handler reads from args
FirstRead(h) ==
    CASE h = "handleEmbed" -> "text"
      [] h = "handleCloudFormation" -> "description"
      [] h = "handleOAuthValidate" -> "provider"
      [] h = "handleIamPolicyValidate" -> "policy_document"
      [] h = "handleMfaCompliance" -> "users"
      [] h = "handleDynamoDbDesign" -> "entities"
      [] h = "handleErrorPatterns" -> "errors"
      [] h = "handleDataLakeReadiness" -> "storage"
      [] h = "handlePredictIssues" -> "system_state"
      [] h = "handleTraceContext" -> "parent_traceparent"
      [] h = "handleCliReadiness" -> "cli_tools"
      [] OTHER -> Guards(h)[1]

Endpoint(h) ==
    CASE h = "handleEmbed" -> "/embed"
      [] h = "handleCloudFormation" -> "/generate/cloudformation"
      [] h = "handleOAuthValidate" -> "/validate/oauth"
      [] h = "handleIamPolicyValidate" -> "/validate/iam-policy"
      [] h = "handleMfaCompliance" -> "/validate/mfa-compliance"
      [] h = "handleDynamoDbDesign" -> "/generate/dynamodb-design"
      [] h = "handleErrorPatterns" -> "/analyze/error-patterns"
      [] h = "handleDataLakeReadiness" -> "/check/data-lake-readiness"
      [] h = "handleCatalog" -> "/catalog"
      [] h = "handleUsage" -> "/usage"
      [] h = "handleRiskClassify" -> "/accelerators/risk/classify"
      [] h = "handleTaskRouting" -> "/accelerators/agent/route"
      [] h = "handlePredictIssues" -> "/accelerators/predict/issues"
      [] h = "handleAutoRecovery" -> "/accelerators/recovery/attempt"
      [] h = "handleResilienceExecute" -> "/accelerators/resilience/execute"
      [] h = "handleAgentMemory" -> "/accelerators/agent/memory"
      [] h = "handleAgentTask" -> "/accelerators/agent/task"
      [] h = "handleTraceContext" -> "/accelerators/trace/create"
      [] h = "handleFileLock" -> "/accelerators/lock/acquire"
      [] h = "handleCliReadiness" -> "/accelerators/cli/validate"
      [] OTHER -> "/accelerators/aci"

\* the inputSchema.required list of a tool of TOOLS
Required(name) ==
    CASE name = "s2t_embed" -> <<"text">>
      [] name = "s2t_analyze_error_patterns" -> <<"errors">>
      [] name = "s2t_generate_cloudformation" -> <<"description">>
      [] name = "s2t_validate_oauth" ->
             <<"provider", "client_id", "redirect_uris", "scopes">>
      [] name = "s2t_generate_dynamodb_design" -> <<"entities", "access_patterns">>
      [] name = "s2t_validate_iam_policy" -> <<"policy_document">>
      [] name = "s2t_classify_action_risk" -> <<"action">>
      [] name = "s2t_route_task_to_agent" -> <<"task_description">>
      [] name = "s2t_attempt_auto_recovery" -> <<"error_message">>
      [] name = "s2t_execute_with_resilience" -> <<"operation_id">>
      [] name = "s2t_manage_agent_memory" -> <<"operation", "agent_id">>
      [] name = "s2t_submit_agent_task" -> <<"agent_id", "prompt">>
      [] name = "s2t_acquire_file_lock" -> <<"file_path">>
      [] name = "aci_classify_decision" -> <<"action">>
      [] name = "aci_financial_gate" -> <<"action">>
      [] name = "aci_compliance_check" -> <<"action">>
      [] name = "aci_route_domain" -> <<"task_description">>
      [] name = "aci_parallel_review" -> <<"action", "reviewers">>
      [] name = "aci_synthesize_reviews" -> <<"review_session_id", "reviews">>
      [] name = "aci_log_decision" -> <<"action", "classification", "reasoning">>
      [] name = "aci_recall_precedent" -> <<"query">>
      [] name = "aci_record_outcome" -> <<"decision_id", "outcome">>
      [] name = "aci_estimate_blast_radius" -> <<"action">>
      [] name = "aci_generate_rollback" -> <<"action">>
      [] name = "s2t_interview_create" -> <<"customer_name", "stakeholder_name">>
      [] name = "s2t_interview_message" -> <<"token", "message">>
      [] name = "s2t_interview_summary" -> <<"token">>
      [] OTHER -> <<>>

\* the defaults the inputSchema of a tool of TOOLS declares, for the tools
\* whose handlers are in handlers.ts
DeclaredDefaults(name) ==
    CASE name = "s2t_embed" ->
             [model |-> JsStr("amazon.titan-embed-text-v2:0"),
              chunk_size |-> JsNum(512), chunk_overlap |-> JsNum(50)]
      [] name = "s2t_analyze_error_patterns" -> [include_ai_analysis |-> JsBool(TRUE)]
      [] name = "s2t_generate_cloudformation" ->
             [format |-> JsStr("sam"), include_parameters |-> JsBool(TRUE),
              include_outputs |-> JsBool(TRUE)]
      [] name = "s2t_validate_iam_policy" ->
             [resource_type |-> JsStr("general"), suggest_improvements |-> JsBool(TRUE)]
      [] name = "s2t_validate_cli_readiness" ->
             [cli_tools |-> JsArr("codex"), validate_api_keys |-> JsBool(TRUE)]
      [] name = "s2t_classify_action_risk" ->
             [environment |-> JsStr("local"), context |-> JsStr("development")]
      [] name = "s2t_route_task_to_agent" ->
             [top_k |-> JsNum(5), include_capabilities |-> JsBool(TRUE)]
      [] name = "s2t_predict_system_issues" -> [analysis_window_days |-> JsNum(30)]
      [] name = "s2t_attempt_auto_recovery" -> [auto_execute |-> JsBool(FALSE)]
      [] name = "s2t_execute_with_resilience" ->
             [max_retries |-> JsNum(3), base_delay_ms |-> JsNum(1000),
              circuit_breaker_threshold |-> JsNum(5)]
      [] name = "s2t_manage_agent_memory" -> [namespace |-> JsStr("default")]
      [] name = "s2t_submit_agent_task" -> [priority |-> JsStr("normal")]
      [] name = "s2t_create_trace_context" -> [service_name |-> JsStr("s2t-agent")]
      [] name = "s2t_acquire_file_lock" ->
             [operation |-> JsStr("acquire"), timeout_ms |-> JsNum(5000)]
      [] OTHER -> [f \in {} |-> Undefined]

\* what the inputSchema of TOOLS permits for an optional field that has a
\* default: the type, the enum, the numeric range and the minimal length
Permits(f, v) ==
    CASE f = "model" ->
             v \in {JsStr("amazon.titan-embed-text-v2:0"), JsStr("amazon.titan-embed-text-v1")}
      [] f = "chunk_size" -> v.t = "number" /\ v.n >= 100 /\ v.n <= 2000
      [] f = "chunk_overlap" -> v.t = "number" /\ v.n >= 0 /\ v.n <= 500
      [] f = "format" -> v \in {JsStr("sam"), JsStr("cloudformation")}
      [] f = "resource_type" ->
             v \in {JsStr(x) : x \in {"s3", "dynamodb", "lambda", "sns", "sqs", "iam",
                                       "general"}}
      [] f = "cli_tools" -> v.t = "array" /\ v.n >= 1 /\ v.s # ""
      [] f = "environment" ->
             v \in {JsStr(x) : x \in {"local", "development", "staging", "production"}}
      [] f = "context" -> v.t = "string"
      [] f = "top_k" -> v.t = "number" /\ v.n >= 1 /\ v.n <= 20
      [] f = "analysis_window_days" -> v.t = "number" /\ v.n >= 7 /\ v.n <= 90
      [] f = "max_retries" -> v.t = "number" /\ v.n >= 1 /\ v.n <= 10
      [] f = "base_delay_ms" -> v.t = "number" /\ v.n >= 100 /\ v.n <= 30000
      [] f = "circuit_breaker_threshold" -> v.t = "number" /\ v.n >= 1 /\ v.n <= 50
      [] f = "namespace" -> v.t = "string"
      [] f = "priority" -> v \in {JsStr(x) : x \in {"low", "normal", "high", "critical"}}
      [] f = "service_name" -> v.t = "string" /\ v.s # ""
      [] f = "operation" -> v \in {JsStr(x) : x \in {"acquire", "release", "check"}}
      [] f = "timeout_ms" -> v.t = "number" /\ v.n >= 100 /\ v.n <= 60000
      [] OTHER -> v.t = "boolean"

\* a handler that forwards the arguments as it got them
BodyAsGiven(h, a) == a.fields

\* the body a handler of handlers.ts passes to apiClient.callApi
Body(h, a) ==
    CASE h = "handleEmbed" ->
             [text |-> Get(a, "text"),
              model |-> Or(Get(a, "model"), JsStr("amazon.titan-embed-text-v2:0")),
              chunk_size |-> Or(Get(a, "chunk_size"), JsNum(512)),
              chunk_overlap |-> Or(Get(a, "chunk_overlap"), JsNum(50))]
      [] h = "handleCloudFormation" ->
             [description |-> Get(a, "description"),
              format |-> Or(Get(a, "format"), JsStr("sam")),
              include_parameters |-> Nullish(Get(a, "include_parameters"), JsBool(TRUE)),
              include_outputs |-> Nullish(Get(a, "include_outputs"), JsBool(TRUE))]
      [] h = "handleOAuthValidate" ->
             [provider |-> Get(a, "provider"), client_id |-> Get(a, "client_id"),
              redirect_uris |-> Get(a, "redirect_uris"), scopes |-> Get(a, "scopes"),
              token_endpoint |-> Get(a, "token_endpoint"),
              authorization_endpoint |-> Get(a, "authorization_endpoint")]
      [] h = "handleMfaCompliance" ->
             [users |-> Get(a, "users"), root_account |-> Get(a, "root_account"),
              policies |-> Get(a, "policies")]
      [] h = "handleDynamoDbDesign" ->
             [entities |-> Get(a, "entities"),
              access_patterns |-> Get(a, "access_patterns"),
              options |-> Get(a, "options")]
      [] h = "handleErrorPatterns" ->
             [errors |-> Get(a, "errors"),
              include_ai_analysis |-> Nullish(Get(a, "include_ai_analysis"), JsBool(TRUE))]
      [] h = "handleDataLakeReadiness" ->
             [storage |-> Get(a, "storage"), catalog |-> Get(a, "catalog"),
              security |-> Get(a, "security"), performance |-> Get(a, "performance"),
              operations |-> Get(a, "operations")]
      [] h = "handleIamPolicyValidate" ->
             [policy_document |-> Get(a, "policy_document"),
              resource_type |-> Or(Get(a, "resource_type"), JsStr("general")),
              suggest_improvements |->
                  Nullish(Get(a, "suggest_improvements"), JsBool(TRUE))]
      [] h = "handleRiskClassify" ->
             [action |-> Get(a, "action"),
              environment |-> Or(Get(a, "environment"), JsStr("local")),
              context |-> Or(Get(a, "context"), JsStr("development"))]
      [] h = "handleTaskRouting" ->
             [task_description |-> Get(a, "task_description"),
              top_k |-> Or(Get(a, "top_k"), JsNum(5)),
              include_capabilities |->
                  Nullish(Get(a, "include_capabilities"), JsBool(TRUE))]
      [] h = "handlePredictIssues" ->
             [system_state |-> Get(a, "system_state"),
              analysis_window_days |-> Or(Get(a, "analysis_window_days"), JsNum(30))]
      [] h = "handleAutoRecovery" ->
             [error_message |-> Get(a, "error_message"),
              error_source |-> Get(a, "error_source"),
              stack_trace |-> Get(a, "stack_trace"),
              auto_execute |-> Nullish(Get(a, "auto_execute"), JsBool(FALSE))]
      [] h = "handleResilienceExecute" ->
             [operation_id |-> Get(a, "operation_id"),
              max_retries |-> Or(Get(a, "max_retries"), JsNum(3)),
              base_delay_ms |-> Or(Get(a, "base_delay_ms"), JsNum(1000)),
              circuit_breaker_threshold |->
                  Or(Get(a, "circuit_breaker_threshold"), JsNum(5))]
      [] h = "handleAgentMemory" ->
             [operation |-> Get(a, "operation"), agent_id |-> Get(a, "agent_id"),
              key |-> Get(a, "key"), value |-> Get(a, "value"),
              namespace |-> Or(Get(a, "namespace"), JsStr("default")),
              search_query |-> Get(a, "search_query")]
      [] h = "handleAgentTask" ->
             [agent_id |-> Get(a, "agent_id"), prompt |-> Get(a, "prompt"),
              priority |-> Or(Get(a, "priority"), JsStr("normal")),
              trace_id |-> Get(a, "trace_id")]
      [] h = "handleTraceContext" ->
             [parent_traceparent |-> Get(a, "parent_traceparent"),
              service_name |-> Or(Get(a, "service_name"), JsStr("s2t-agent"))]
      [] h = "handleFileLock" ->
             [file_path |-> Get(a, "file_path"),
              operation |-> Or(Get(a, "operation"), JsStr("acquire")),
              lock_token |-> Get(a, "lock_token"),
              timeout_ms |-> Or(Get(a, "timeout_ms"), JsNum(5000))]
      [] h = "handleCliReadiness" ->
             [cli_tools |-> Or(Get(a, "cli_tools"), JsArr("codex")),
              validate_api_keys |-> Nullish(Get(a, "validate_api_keys"), JsBool(TRUE))]
      [] OTHER -> [f \in {} |-> Undefined]

\* the HTTP method a handler passes to apiClient.callApi
Method(h) == IF h \in NoArgHandlers THEN "GET" ELSE "POST"

\* what running a piece of handler code comes to
Throw(msg) == [kind |-> "throw", message |-> msg, text |-> ""]
Return(text) == [kind |-> "return", message |-> "", text |-> text]
CallApi(endpoint) == [kind |-> "call", message |-> endpoint, text |-> ""]

RECURSIVE FirstInvalid(_, _)
\* the first guarded field that fails  !args.f || typeof args.f !== "string"
FirstInvalid(fields, args) ==
    IF fields = <<>> THEN ""
    ELSE IF Falsy(Get(args, Head(fields))) \/ Get(args, Head(fields)).t # "string"
         THEN Head(fields)
         ELSE FirstInvalid(Tail(fields), args)

\* a handler that sends its request before it looks at its arguments
HandlerPrologueCallFirst(h, args) ==
    IF h \in NoArgHandlers THEN CallApi(Endpoint(h))
    ELSE IF ~args.present
    THEN Throw("Cannot read properties of undefined (reading '" \o FirstRead(h) \o "')")
    ELSE CallApi(Endpoint(h))

\* a handler of handlers.ts up to its await apiClient.callApi(...)
HandlerPrologue(h, args) ==
    IF h \in NoArgHandlers THEN CallApi(Endpoint(h))
    ELSE IF ~args.present
    THEN Throw("Cannot read properties of undefined (reading '" \o FirstRead(h) \o "')")
    ELSE IF FirstInvalid(Guards(h), args) # ""
    THEN Throw("Required parameter '" \o FirstInvalid(Guards(h), args)
               \o "' must be a non-empty string")
    ELSE CallApi(Endpoint(h))

\* what fetch and response.json() may give createApiClient
FetchOutcomes ==
    { [net |-> "ok",   ok |-> TRUE,  status |-> 200, body |-> "result",  errmsg |-> ""],
      [net |-> "ok",   ok |-> TRUE,  status |-> 200, body |-> "empty",   errmsg |-> ""],
      [net |-> "ok",   ok |-> FALSE, status |-> 429, body |-> "error",
       errmsg |-> "API rate limit exceeded"],
      [net |-> "ok",   ok |-> FALSE, status |-> 500, body |-> "empty",   errmsg |-> ""],
      [net |-> "ok",   ok |-> FALSE, status |-> 502, body |-> "invalid", errmsg |-> ""],
      [net |-> "fail", ok |-> FALSE, status |-> 0,   body |-> "invalid",
       errmsg |-> "Network error"] }

\* a client that reports every non-success response by its status alone
ApiClientCallStatusOnly(f) ==
    IF f.net = "fail" THEN Throw(f.errmsg)
    ELSE IF f.body = "invalid" THEN Throw("Unexpected end of JSON input")
    ELSE IF ~f.ok THEN Throw("API error: " \o ToString(f.status))
    ELSE Return(f.body)

\* callApi of createApiClient after the request was sent:
\*   const response = await fetch(url, options); const data = await response.json();
\*   if (!response.ok) throw new Error(data.error?.message || `API error: ${status}`)
ApiClientCall(f) ==
    IF f.net = "fail" THEN Throw(f.errmsg)
    ELSE IF f.body = "invalid" THEN Throw("Unexpected end of JSON input")
    ELSE IF ~f.ok
    THEN Throw(IF f.body = "error" /\ f.errmsg # "" THEN f.errmsg
               ELSE "API error: " \o ToString(f.status))
    ELSE Return(f.body)

\* a handler that wraps a failure of the remote call in its own message
HandlerEpilogueReworded(h, api) ==
    IF api.kind = "throw" THEN Throw("Request failed: " \o api.message)
    ELSE IF api.text = "result" THEN Return(h \o ": formatted result")
    ELSE Throw("Cannot read properties of undefined")

\* a handler of handlers.ts after its await: a rejection of callApi passes
\* through, a result is formatted; a body without the fields the formatter
\* reads makes it throw a TypeError
HandlerEpilogue(h, api) ==
    IF api.kind = "throw" THEN api
    ELSE IF api.text = "result" THEN Return(h \o ": formatted result")
    ELSE Throw("Cannot read properties of undefined")

\* what a handler whose code is not in handlers.ts may come to
OpaqueOutcomes ==
    { Return("formatted result"),
      Throw("Required parameter 'action' must be a non-empty string"),
      Throw("Network failure: 503") }

\* a catch clause that returns the bare message and no error flag
CallToolResultUnmarked(outcome) ==
    [thrown |-> FALSE,
     value  |-> [content |-> <<[type |-> "text",
                                text |-> IF outcome.kind = "throw" THEN outcome.message
                                         ELSE outcome.text]>>]]

\* the handler without its try/catch
CallToolUncaught(outcome) ==
    [thrown |-> outcome.kind = "throw",
     value  |-> [content |-> <<[type |-> "text", text |-> outcome.text]>>]]

\* the end of the CallTool handler: the result, or the catch clause
CallToolResult(outcome) ==
    IF outcome.kind = "throw"
    THEN [thrown |-> FALSE,
          value  |-> [content |-> <<[type |-> "text",
                                     text |-> "Error: " \o outcome.message]>>,
                      isError |-> TRUE]]
    ELSE [thrown |-> FALSE,
          value  |-> [content |-> <<[type |-> "text", text |-> outcome.text]>>]]

CallIds == 1..MaxCalls

\* what a handler hands to apiClient.callApi
NoRequest == [endpoint |-> "", method |-> "", body |-> [f \in {} |-> Undefined]]
Request(h, args) == [endpoint |-> Endpoint(h), method |-> Method(h), body |-> Body(h, args)]

\* no response yet
NoFetch == [net |-> "none", ok |-> FALSE, status |-> 0, body |-> "", errmsg |-> ""]

\* a call slot: the request (name, args), the handler bound to it, the remote
\* calls it made, the request it sent and the response that came, what the
\* handler came to and what the CallTool handler gave
Idle == [pc |-> "idle", name |-> "", args |-> NoArgs, handler |-> "", apiCalls |-> 0,
         request |-> NoRequest, fetch |-> NoFetch,
         outcome |-> Return(""), result |-> CallToolResult(Return(""))]

Done(name, args, h, apiCalls, outcome) ==
    [pc |-> "done", name |-> name, args |-> args, handler |-> h, apiCalls |-> apiCalls,
     request |-> NoRequest, fetch |-> NoFetch,
     outcome |-> outcome, result |-> CallToolResult(outcome)]

Awaiting(name, args, h) ==
    [pc |-> "awaiting", name |-> name, args |-> args, handler |-> h, apiCalls |-> 1,
     request |-> Request(h, args), fetch |-> NoFetch,
     outcome |-> Return(""), result |-> CallToolResult(Return(""))]

\* a suspended call whose remote call came to f and whose handler came to outcome
Settled(slot, f, outcome) ==
    [slot EXCEPT !.pc = "done", !.fetch = f, !.outcome = outcome,
                 !.result = CallToolResult(outcome)]

\* the CallTool handler for a name the switch does not know
CallUnknown(c, name, args) ==
    /\ calls[c].pc = "idle"
    /\ HandlerOf(name) = "default"
    /\ calls' = [calls EXCEPT ![c] =
                    Done(name, args, "default", 0, Throw("Unknown tool: " \o name))]
    /\ UNCHANGED httpVars

\* the CallTool handler for a handler of handlers.ts, up to its await or its throw
CallTool(c, name, args) ==
    /\ calls[c].pc = "idle"
    /\ HandlerOf(name) \in SourceHandlers
    /\ LET h == HandlerOf(name)
           pre == HandlerPrologue(h, args)
       IN  calls' = [calls EXCEPT ![c] =
                        IF pre.kind = "call" THEN Awaiting(name, args, h)
                        ELSE Done(name, args, h, 0, pre)]
    /\ UNCHANGED httpVars

\* the remote call of a suspended handler settles
RemoteSettle(c, f) ==
    /\ calls[c].pc = "awaiting"
    /\ calls' = [calls EXCEPT ![c] =
                    Settled(calls[c], f, HandlerEpilogue(calls[c].handler, ApiClientCall(f)))]
    /\ UNCHANGED httpVars

\* the CallTool handler for a handler whose code is not in handlers.ts: it
\* returns a text or throws; the interview handlers make no remote call
CallOpaque(c, name, args, outcome, called) ==
    /\ calls[c].pc = "idle"
    /\ HandlerOf(name) \notin SourceHandlers \cup {"default"}
    /\ HandlerOf(name) \in LocalHandlers => ~called
    /\ calls' = [calls EXCEPT ![c] =
                    Done(name, args, HandlerOf(name), IF called THEN 1 ELSE 0, outcome)]
    /\ UNCHANGED httpVars

\* the result was handed to the protocol layer
Deliver(c) ==
    /\ calls[c].pc = "done"
    /\ calls' = [calls EXCEPT ![c] = Idle]
    /\ UNCHANGED httpVars

(* ----------------------- embedding result format ----------------------- *)

\* c.text.substring(0, 100) and c.text.length > 100
PREVIEW_LENGTH == 100

\* a text as the sequence of its UTF-16 code units
Rep(ch, n) == [i \in 1..n |-> ch]

ELLIPSIS == <<".", ".", ".">>

\* chunk texts a response may carry: empty, short, one unit below, at and above
\* the threshold, long ones whose tail differs from their head, and texts that
\* end with dots themselves
ChunkTexts ==
    { Rep("A", 0), Rep("A", 7), Rep("A", 99), Rep("A", 100),
      Rep("A", 100) \o Rep("B", 1), Rep("A", 100) \o Rep("B", 50),
      Rep("A", 97) \o ELLIPSIS, Rep("A", 100) \o ELLIPSIS }

\* a preview that marks every text of 100 units or more
PreviewAtThreshold(text) ==
    SubSeq(text, 1, IF Len(text) < PREVIEW_LENGTH THEN Len(text) ELSE PREVIEW_LENGTH)
        \o (IF Len(text) >= PREVIEW_LENGTH THEN ELLIPSIS ELSE <<>>)

\* c.text.substring(0, 100) + (c.text.length > 100 ? "..." : "")
Preview(text) ==
    SubSeq(text, 1, IF Len(text) < PREVIEW_LENGTH THEN Len(text) ELSE PREVIEW_LENGTH)
        \o (IF Len(text) > PREVIEW_LENGTH THEN ELLIPSIS ELSE <<>>)

\* response.chunks.map((c, i) => ({index: i, text_preview: ..., ...}))
FormatChunks(chunks) ==
    [k \in 1..Len(chunks) |->
        [index |-> k - 1, text_preview |-> Preview(chunks[k]), has_embedding |-> TRUE]]

RECURSIVE SeqsUpTo(_, _)
\* the sequences over S of length at most n
SeqsUpTo(S, n) ==
    IF n = 0 THEN {<<>>}
    ELSE LET shorter == SeqsUpTo(S, n - 1)
         IN  shorter \cup {Append(q, x) : q \in {r \in shorter : Len(r) = n - 1}, x \in S}

NoEmbed == [pc |-> "none", chunks |-> <<>>, out |-> <<>>]

\* callApi("/embed") has resolved with a response carrying these chunks
EmbedResponse(chunks) == [pc |-> "response", chunks |-> chunks, out |-> <<>>]

\* handleEmbed after its await: the chunks of the text it returns
HandleEmbedFormat ==
    /\ embed.pc = "response"
    /\ embed' = [embed EXCEPT !.pc = "formatted", !.out = FormatChunks(embed.chunks)]
    /\ UNCHANGED <<streamableTransports, sseTransports, transports, serversCreated,
                   tokensIssued, sseOpened, sseStreams, deletes, terminated, shutdownPc,
                   sweep, sweepSnapshot, timerArmed, listening, exitCode, event, calls,
                   cors, startup>>

(* ------------------------------ startup -------------------------------- *)

\* the two entry points: the HTTP server and the stdio server
EntryPoints == {"http-server", "index"}

\* process.env.S2T_API_KEY: unset, set to the empty string, or set to a key
ApiKeys == {Undefined, JsStr(""), JsStr("s2t-key")}

\* the module has been read up to its configuration block
Loading(entry, key) == [entry |-> entry, apiKey |-> key, pc |-> "load"]

\* the HTTP entry point once it listens
Booted == [entry |-> "http-server", apiKey |-> JsStr("s2t-key"), pc |-> "up"]

\* a guard that prints the diagnostic and goes on
ApiKeyGuardWarnOnly(key) == -1

\* if (!API_KEY) { console.error(...); process.exit(1); }: the exit code, -1
\* when the module goes on loading
ApiKeyGuard(key) == IF Falsy(key) THEN 1 ELSE -1

\* the configuration block of either entry point
ConfigGuard ==
    /\ Running
    /\ startup.pc = "load"
    /\ exitCode' = ApiKeyGuard(startup.apiKey)
    /\ startup' = [startup EXCEPT !.pc = IF ApiKeyGuard(startup.apiKey) = -1
                                         THEN "configured" ELSE "exited"]
    /\ event' = Event("CONFIG", NoToken, FALSE, NoResponse)
    /\ UNCHANGED <<streamableTransports, sseTransports, transports, serversCreated,
                   tokensIssued, sseOpened, sseStreams, deletes, terminated, shutdownPc,
                   sweep, sweepSnapshot, timerArmed, listening, calls, cors, embed>>

\* const httpServer = app.listen(PORT, ...) and the signal handlers
HttpListen ==
    /\ Running
    /\ startup.entry = "http-server"
    /\ startup.pc = "configured"
    /\ listening' = TRUE
    /\ startup' = [startup EXCEPT !.pc = "up"]
    /\ event' = Event("LISTEN", NoToken, FALSE, NoResponse)
    /\ UNCHANGED <<streamableTransports, sseTransports, transports, serversCreated,
                   tokensIssued, sseOpened, sseStreams, deletes, terminated, shutdownPc,
                   sweep, sweepSnapshot, timerArmed, exitCode, calls, cors, embed>>

\* main() of the stdio entry point: await server.connect(new StdioServerTransport())
StdioConnect ==
    /\ Running
    /\ startup.entry = "index"
    /\ startup.pc = "configured"
    /\ startup' = [startup EXCEPT !.pc = "up"]
    /\ serversCreated' = serversCreated + 1
    /\ event' = Event("CONNECT", NoToken, FALSE, NoResponse)
    /\ UNCHANGED <<streamableTransports, sseTransports, transports, tokensIssued,
                   sseOpened, sseStreams, deletes, terminated, shutdownPc, sweep,
                   sweepSnapshot, timerArmed, listening, exitCode, calls, cors, embed>>

\* the HTTP entry point has loaded: its routes and signal handlers are in place
Serving == startup.entry = "http-server" /\ startup.pc = "up"

(* --------------------------- specification ----------------------------- *)

\* the stores and the handlers' state once the module has loaded
Started ==
    /\ streamableTransports = EmptyMap
    /\ sseTransports = EmptyMap
    /\ transports = [tr \in TransportIds |-> NoTransport]
    /\ serversCreated = 0
    /\ tokensIssued = 0
    /\ sseOpened = 0
    /\ sseStreams = {}
    /\ deletes = {}
    /\ terminated = {}
    /\ shutdownPc = "running"
    /\ sweep = EmptyMap
    /\ sweepSnapshot = EmptyMap
    /\ timerArmed = FALSE
    /\ listening = TRUE
    /\ exitCode = -1
    /\ event = Event("START", NoToken, FALSE, NoResponse)
    /\ calls = [c \in CallIds |-> Idle]

\* ALLOWED_ORIGINS as the environment declares it, before any request
CorsStart(allowed) ==
    [allowed |-> allowed, last |-> CorsPass(allowed, NoOrigin, "GET"), seen |-> FALSE]

\* S2T_CORS_ORIGINS unset
Init ==
    /\ Started
    /\ cors = CorsStart({})
    /\ startup = Booted
    /\ embed = NoEmbed

\* S2T_CORS_ORIGINS set to any list, or unset
OriginInit ==
    /\ Started
    /\ cors \in {CorsStart(al) : al \in AllowLists}
    /\ startup = Booted
    /\ embed = NoEmbed

\* the streaming-HTTP binding under requests on /mcp and signals
Next ==
    \/ \E sid \in TokenInputs(tokensIssued), init \in BOOLEAN : PostMcp(sid, init)
    \/ \E tr \in TransportIds : PostInitResume(tr)
    \/ \E sid \in TokenInputs(tokensIssued) : GetMcp(sid)
    \/ \E sid \in TokenInputs(tokensIssued) : DeleteUnknown(sid)
    \/ \E sid \in Tokens, oc \in CloseOutcomes : DeleteMcp(sid, oc)
    \/ \E sid \in Tokens : DeleteFinish(sid)
    \/ \E ocs \in [DOMAIN streamableTransports -> CloseOutcomes] : Shutdown(ocs)
    \/ \E tr \in TransportIds : SettleClose(tr)
    \/ ShutdownAfterSweep
    \/ ListenerClosed
    \/ ForceExit

Spec == Init /\ [][Next]_vars

\* the legacy binding under requests on /sse and /messages and signals
LegacyNext ==
    \/ SseOpen
    \/ \E c \in SseConnIds : SseStreamClose(c)
    \/ \E q \in SseSessionInputs : PostMessages(q)
    \/ \E ocs \in [DOMAIN streamableTransports -> CloseOutcomes] : Shutdown(ocs)
    \/ ShutdownAfterSweep
    \/ ListenerClosed
    \/ ForceExit

LegacySpec == Init /\ [][LegacyNext]_vars

\* the CallTool handler of one server under calls and remote outcomes
DispatchNext ==
    \/ \E c \in CallIds, name \in CalledNames, args \in ArgBags : CallUnknown(c, name, args)
    \/ \E c \in CallIds, in \in CallInputs : CallTool(c, in[1], in[2])
    \/ \E c \in CallIds, f \in FetchOutcomes : RemoteSettle(c, f)
    \/ \E c \in CallIds, name \in CalledNames, args \in ArgBags,
          outcome \in OpaqueOutcomes, called \in BOOLEAN :
              CallOpaque(c, name, args, outcome, called)
    \/ \E c \in CallIds : Deliver(c)

DispatchSpec == Init /\ [][DispatchNext]_vars

\* the middleware under requests of any origin and method
OriginNext ==
    \E origin \in Origins, method \in Methods : CorsMiddleware(origin, method)

OriginSpec == OriginInit /\ [][OriginNext]_vars

\* the process as the operating system starts it: nothing listens yet
StartupInit ==
    /\ streamableTransports = EmptyMap
    /\ sseTransports = EmptyMap
    /\ transports = [tr \in TransportIds |-> NoTransport]
    /\ serversCreated = 0
    /\ tokensIssued = 0
    /\ sseOpened = 0
    /\ sseStreams = {}
    /\ deletes = {}
    /\ terminated = {}
    /\ shutdownPc = "running"
    /\ sweep = EmptyMap
    /\ sweepSnapshot = EmptyMap
    /\ timerArmed = FALSE
    /\ listening = FALSE
    /\ exitCode = -1
    /\ event = Event("START", NoToken, FALSE, NoResponse)
    /\ calls = [c \in CallIds |-> Idle]
    /\ cors = CorsStart({})
    /\ startup \in {Loading(e, k) : e \in EntryPoints, k \in ApiKeys}
    /\ embed = NoEmbed

\* either entry point from its first statement on, and the HTTP entry point
\* under requests on both bindings and signals once it has loaded
StartupNext ==
    \/ ConfigGuard
    \/ HttpListen
    \/ StdioConnect
    \/ Serving /\ SseOpen
    \/ Serving /\ \E c \in SseConnIds : SseStreamClose(c)
    \/ Serving /\ \E q \in SseSessionInputs : PostMessages(q)
    \/ Serving /\ \E sid \in TokenInputs(tokensIssued), init \in BOOLEAN : PostMcp(sid, init)
    \/ Serving /\ \E tr \in TransportIds : PostInitResume(tr)
    \/ Serving /\ \E ocs \in [DOMAIN streamableTransports -> CloseOutcomes] : Shutdown(ocs)
    \/ Serving /\ \E tr \in TransportIds : SettleClose(tr)
    \/ Serving /\ ShutdownAfterSweep
    \/ Serving /\ ListenerClosed
    \/ Serving /\ ForceExit

StartupSpec == StartupInit /\ [][StartupNext]_vars

\* handleEmbed has its response: any list of up to MaxChunks chunks
EmbedInit ==
    /\ Started
    /\ cors = CorsStart({})
    /\ startup = Booted
    /\ embed \in {EmbedResponse(chunks) : chunks \in SeqsUpTo(ChunkTexts, MaxChunks)}

EmbedNext == HandleEmbedFormat

EmbedSpec == EmbedInit /\ [][EmbedNext]_vars

\* The event loop runs every callback that is ready: an initialize request
\* suspended at server.connect resumes, a close promise that settles is
\* observed, the continuation of shutdown runs once allSettled resolves, and
\* an armed timer fires.  Requests and the end of the last connection depend
\* on clients and are not guaranteed.
FairSpec ==
    /\ Spec
    /\ \A tr \in TransportIds : WF_vars(PostInitResume(tr))
    /\ \A tr \in TransportIds : WF_vars(SettleClose(tr))
    /\ WF_vars(ShutdownAfterSweep)
    /\ WF_vars(ForceExit)

(* ------------------------------ claims --------------------------------- *)

DoneCalls == {c \in CallIds : calls[c].pc = "done"}

\* C1: whatever the tool name and the arguments, the tool-call handler
\* completes with a result object; no failure of the lookup, of the argument
\* checks, of the remote call or of the formatting escapes it as an exception.
C1_DispatcherNeverThrows ==
    \A c \in DoneCalls :
        /\ ~calls[c].result.thrown
        /\ Len(calls[c].result.value.content) = 1
        /\ calls[c].result.value.content[1].type = "text"

\* a call made with no arguments object to a tool that reads one has completed
C1_Witness ==
    \E c \in DoneCalls :
        /\ ~calls[c].args.present
        /\ calls[c].outcome.kind = "throw"
        /\ calls[c].handler \in SourceHandlers

\* C2: the result carries isError = true exactly when the lookup or the
\* handler failed, and its text is then "Error: " followed by the failure's
\* own message; when the handler returned, the text is the handler's text and
\* the result carries no error flag.
C2_ErrorExactlyOnFailure ==
    \A c \in DoneCalls :
        LET r == calls[c].result.value
            o == calls[c].outcome
        IN  /\ ("isError" \in DOMAIN r) <=> (o.kind = "throw")
            /\ o.kind = "throw" =>
                   /\ r.isError = TRUE
                   /\ r.content = <<[type |-> "text", text |-> "Error: " \o o.message]>>
            /\ o.kind = "return" =>
                   r.content = <<[type |-> "text", text |-> o.text]>>
            /\ (calls[c].apiCalls = 1 /\ o.kind = "throw" /\ o.message = "Network error")
                   => r.content[1].text = "Error: Network error"

\* a remote call has failed with "Network error" and the call has completed
C2_Witness ==
    \E c \in DoneCalls :
        /\ calls[c].apiCalls = 1
        /\ calls[c].outcome = Throw("Network error")

\* C3: a name that is not one of the registered tools, by exact match of its
\* spelling and case, completes with isError = true and the text
\* "Error: Unknown tool: <name>", and no remote call is made for it.
C3_UnknownTool ==
    \A c \in DoneCalls :
        calls[c].name \notin Registered =>
            /\ calls[c].result.value =
                   [content |-> <<[type |-> "text",
                                   text |-> "Error: Unknown tool: " \o calls[c].name]>>,
                    isError |-> TRUE]
            /\ ~calls[c].result.thrown
            /\ calls[c].apiCalls = 0

\* a call to the name of a registered tool in another case has completed
C3_Witness ==
    \E c \in DoneCalls : calls[c].name = "S2T_EMBED"

\* C4: a token whose DELETE was acknowledged is not in the store; a request
\* carrying it is answered as one carrying a token that was never issued; and
\* a token that was issued and has left the store never enters it again.
C4_TerminatedIsGone ==
    /\ [](\A tok \in terminated :
            /\ tok \notin DOMAIN streamableTransports
            /\ \A init \in BOOLEAN :
                   PostResponse(streamableTransports, tok, init)
                       = PostResponse(streamableTransports, NeverIssued, init)
            /\ GetResponse(streamableTransports, tok)
                   = GetResponse(streamableTransports, NeverIssued)
            /\ (event.sid = tok /\ event.op \in {"POST", "GET"}) => event.resp.by = 0
            /\ (event.sid = tok /\ event.op = "DELETE") =>
                   event.resp \in {DeleteRejection, Acknowledged(event.resp.by)})
    /\ [][\A tok \in 1..tokensIssued :
            tok \notin DOMAIN streamableTransports
                => tok \notin DOMAIN streamableTransports']_vars

\* a session was created and terminated, another one is open, and a submit
\* request carrying the stale token has been rejected
C4_Witness ==
    /\ event.op = "POST"
    /\ event.sid \in terminated
    /\ event.resp = PostRejection
    /\ streamableTransports # EmptyMap

\* C5: the shutdown sweep invokes close on every session that was in the
\* store when the signal arrived, whether or not the close of another one
\* fails, and when the sweep is over the store is empty.
C5_SweepClosesAll ==
    /\ shutdownPc # "running" =>
           /\ DOMAIN sweep = {sweepSnapshot[tok] : tok \in DOMAIN sweepSnapshot}
           /\ \A tr \in DOMAIN sweep : transports[tr].closeInvoked
    /\ event.op = "SHUTDOWN_SWEPT" =>
           /\ \A tr \in DOMAIN sweep : sweep[tr].settled
           /\ streamableTransports = EmptyMap

\* the sweep is over; it met two sessions, the close of one failed and the
\* close of the other succeeded
C5_Witness ==
    /\ event.op = "SHUTDOWN_SWEPT"
    /\ Cardinality(DOMAIN sweepSnapshot) = 2
    /\ \E a, b \in DOMAIN sweep :
           /\ sweep[a].settle = "reject"
           /\ sweep[b].settle = "resolve"

\* C6: once shutdown has begun the process exits, through the listener's
\* callback or through the force-exit timer, also when the close of a session
\* never settles.
C6_ShutdownNeverHangs ==
    (shutdownPc # "running") ~> (exitCode # -1)

\* C7: a submit request that is not an initialize request and carries no
\* token, or a token that is not in the store, gets the transport-level
\* rejection; it reaches no transport, creates none, and leaves the store as
\* it was.
C7_RejectedSubmit ==
    [][(/\ event'.op = "POST"
        /\ ~event'.init
        /\ (event'.sid = NoToken \/ event'.sid \notin DOMAIN streamableTransports))
       => /\ event'.resp = PostRejection
          /\ event'.resp.status = HTTP_BAD_REQUEST
          /\ event'.resp.by = 0
          /\ streamableTransports' = streamableTransports
          /\ transports' = transports
          /\ serversCreated' = serversCreated
          /\ tokensIssued' = tokensIssued]_vars

\* while a session is open, a submit request that is not an initialize
\* request and carries a made-up token has been rejected
C7_Witness ==
    /\ event.op = "POST"
    /\ ~event.init
    /\ event.sid = NeverIssued
    /\ event.resp = PostRejection
    /\ streamableTransports # EmptyMap

\* C8: a request whose token is in the store is handled by the transport
\* registered under that token, which is the one that generated it, and the
\* request creates no transport, no server and no store entry.
C8_RoutedToOwner ==
    [][(/\ event'.op \in {"POST", "GET", "DELETE"}
        /\ event'.sid \in DOMAIN streamableTransports)
       => /\ event'.resp.by = streamableTransports[event'.sid]
          /\ transports[event'.resp.by].sessionId = event'.sid
          /\ transports[event'.resp.by].connected
          /\ Created' = Created
          /\ serversCreated' = serversCreated
          /\ tokensIssued' = tokensIssued
          /\ DOMAIN streamableTransports' \subseteq DOMAIN streamableTransports]_vars

\* two sessions are open and a submit request carrying the token of the
\* second was handled by the transport that generated that token
C8_Witness ==
    /\ event.op = "POST"
    /\ ~event.init
    /\ event.sid = 2
    /\ Cardinality(DOMAIN streamableTransports) = 2
    /\ event.resp.by = streamableTransports[event.sid]
    /\ transports[event.resp.by].sessionId = event.sid

GetStep == event'.op = "GET"

\* C9 as written: a stream request is accepted only when its token is in the
\* store; otherwise it is rejected with the very response of a rejected submit
\* request, and the store is unchanged.
C9_RejectedIdentically ==
    [][GetStep =>
          /\ (event'.resp.by # 0) <=> (event'.sid \in DOMAIN streamableTransports)
          /\ event'.resp.by = 0 => event'.resp = PostRejection
          /\ streamableTransports' = streamableTransports]_vars

\* C9: a stream request is accepted only when its token is in the store;
\* otherwise it is rejected with the status, the error code and the envelope
\* of a rejected submit request but with the message "Bad request: invalid or
\* missing session ID.", and the store is unchanged.
C9_RejectedAlike ==
    [][GetStep =>
          /\ (event'.resp.by # 0) <=> (event'.sid \in DOMAIN streamableTransports)
          /\ event'.resp.by = 0 =>
                 /\ event'.resp.status = PostRejection.status
                 /\ event'.resp.code = PostRejection.code
                 /\ event'.resp.message = "Bad request: invalid or missing session ID."
                 /\ event'.resp.message # PostRejection.message
          /\ event'.resp.by # 0 => event'.resp.by = streamableTransports[event'.sid]
          /\ streamableTransports' = streamableTransports]_vars

\* a stream request carrying the token of a terminated session was rejected
C9_Witness ==
    /\ event.op = "GET"
    /\ event.sid \in terminated
    /\ event.resp = GetRejection

\* C10: when a DELETE for a known token is acknowledged, close was invoked on
\* the session's transport and the token has left the store; the handler's own
\* removal comes after it and finds the token absent, and the token stays
\* absent.
C10_DeleteClosesThenRemoves ==
    /\ (event.op = "DELETE" /\ event.resp.status = HTTP_OK) =>
           /\ event.resp.by \in TransportIds
           /\ transports[event.resp.by].closeInvoked
           /\ transports[event.resp.by].sessionId = event.sid
           /\ event.sid \notin DOMAIN streamableTransports
           /\ event.sid \in deletes
    /\ \A tok \in deletes : tok \notin DOMAIN streamableTransports
    /\ event.op = "DELETE_DONE" => event.sid \notin DOMAIN streamableTransports

\* a DELETE was acknowledged while another session stays open
C10_Witness ==
    /\ event.op = "DELETE"
    /\ event.resp.status = HTTP_OK
    /\ streamableTransports # EmptyMap

\* transports that were given a session id
Live == {tr \in TransportIds : transports[tr].connected}

\* C11: in every reachable state, whatever the interleaving of the requests,
\* a token is held by at most one session, the store maps a token to the one
\* transport that generated it, and no transport is stored under two tokens.
C11_OneSessionPerToken ==
    /\ \A a, b \in Live : transports[a].sessionId = transports[b].sessionId => a = b
    /\ \A tok \in DOMAIN streamableTransports :
           /\ tok \in 1..tokensIssued
           /\ streamableTransports[tok] \in Live
           /\ transports[streamableTransports[tok]].sessionId = tok
    /\ \A j, k \in DOMAIN streamableTransports :
           streamableTransports[j] = streamableTransports[k] => j = k

\* two initialize requests overlapped: the transport built second got its
\* token first, and both sessions are in the store
C11_Witness ==
    /\ DOMAIN streamableTransports = {1, 2}
    /\ streamableTransports[1] = 2
    /\ streamableTransports[2] = 1

\* C12: the removal by the close hook and the removal by the DELETE handler
\* take the same one entry out of the store, in either order and however
\* often they run, and every other entry stays as it was; in a run, the
\* handler's removal after an acknowledged DELETE changes nothing.
C12_RemovalIdempotent ==
    /\ [](\A tok \in DOMAIN streamableTransports :
            LET store == streamableTransports
                tr == store[tok]
                byHook == OnClose(store, tr)
                byHandler == DeleteResume(store, tok)
            IN  /\ byHook = byHandler
                /\ DOMAIN byHook = DOMAIN store \ {tok}
                /\ \A other \in DOMAIN byHook : byHook[other] = store[other]
                /\ DeleteResume(byHook, tok) = byHook
                /\ OnClose(byHandler, tr) = byHandler
                /\ OnClose(byHook, tr) = byHook
                /\ DeleteResume(byHandler, tok) = byHandler)
    /\ [][/\ event'.op = "DELETE" =>
              \A other \in DOMAIN streamableTransports \ {event'.sid} :
                  /\ other \in DOMAIN streamableTransports'
                  /\ streamableTransports'[other] = streamableTransports[other]
          /\ event'.op = "DELETE_DONE" =>
              /\ event'.sid \notin DOMAIN streamableTransports
              /\ streamableTransports' = streamableTransports]_vars

\* the DELETE handler ran its own removal after the close hook had removed
\* the entry, while the other session stayed in the store
C12_Witness ==
    /\ event.op = "DELETE_DONE"
    /\ event.sid \in terminated
    /\ streamableTransports # EmptyMap

\* the origin of the last request matches no entry of the allow-list, neither
\* exactly nor as s2tconsulting.com or one of its subdomains
OriginRefused ==
    /\ cors.seen
    /\ cors.allowed # {}
    /\ cors.last.origin.present
    /\ ~isOriginAllowed(cors.allowed, cors.last.origin)

\* C13: when an allow-list is declared, a request whose origin matches no
\* entry is not handed on to the routes; when none is declared every request
\* that is not a preflight is handed on.
C13_OriginGate ==
    /\ OriginRefused => ~cors.last.next
    /\ (cors.seen /\ cors.allowed = {} /\ cors.last.method # "OPTIONS") => cors.last.next

\* the calls in flight or completed whose handler is in handlers.ts
SourceCalls ==
    {c \in CallIds : calls[c].pc # "idle" /\ calls[c].handler \in SourceHandlers}

RequiredMessage(f) == "Required parameter '" \o f \o "' must be a non-empty string"

\* C14: a call whose arguments fail a handler's required-field check has
\* completed with the validation failure and without any remote call; a
\* validation failure is never the outcome of a call that made one.
C14_ValidationBeforeCall ==
    \A c \in SourceCalls :
        LET slot == calls[c]
            bad == FirstInvalid(Guards(slot.handler), slot.args)
        IN  /\ (slot.args.present /\ bad # "") =>
                   /\ slot.pc = "done"
                   /\ slot.apiCalls = 0
                   /\ slot.request = NoRequest
                   /\ slot.outcome = Throw(RequiredMessage(bad))
            /\ (slot.name = "s2t_classify_action_risk" /\ slot.args.present
                    /\ Get(slot.args, "action") = Undefined) =>
                   /\ slot.apiCalls = 0
                   /\ slot.outcome = Throw(RequiredMessage("action"))
            /\ (slot.pc = "done" /\ slot.outcome.kind = "throw"
                    /\ \E f \in GuardedFields : slot.outcome.message = RequiredMessage(f))
                   => slot.apiCalls = 0

\* risk classification was called with an arguments object without action
C14_Witness ==
    \E c \in SourceCalls :
        /\ calls[c].name = "s2t_classify_action_risk"
        /\ calls[c].args = Args([f \in {} |-> Undefined])
        /\ calls[c].pc = "done"
        /\ calls[c].outcome.kind = "throw"

\* every required field of the tool is absent from the arguments object
AllRequiredAbsent(slot) ==
    /\ slot.args.present
    /\ Required(slot.name) # <<>>
    /\ \A i \in DOMAIN Required(slot.name) :
           Get(slot.args, Required(slot.name)[i]) = Undefined

\* C15: a call to a tool that declares required fields, made with all of them
\* absent, makes no remote call and fails with the validation message naming
\* the first required field the input shape declares.
C15_RequiredFieldsChecked ==
    \A c \in SourceCalls :
        AllRequiredAbsent(calls[c]) =>
            /\ calls[c].apiCalls = 0
            /\ calls[c].pc = "done"
            /\ calls[c].outcome = Throw(RequiredMessage(Required(calls[c].name)[1]))

\* the optional fields for which the tool declares a default are all omitted
\* and the required ones are given
OnlyRequiredGiven(slot) ==
    /\ slot.args.present
    /\ \A f \in DOMAIN DeclaredDefaults(slot.name) : Get(slot.args, f) = Undefined
    /\ \A i \in DOMAIN Required(slot.name) :
           Get(slot.args, Required(slot.name)[i]) # Undefined

C17_RemoteFailureUnchanged ==
    \A c \in SourceCalls :
        LET slot == calls[c]
        IN  (slot.pc = "done" /\ slot.fetch # NoFetch
                 /\ ApiClientCall(slot.fetch).kind = "throw") =>
                /\ slot.outcome = ApiClientCall(slot.fetch)
                /\ slot.apiCalls = 1
                /\ slot.result.value.content[1].text
                       = "Error: " \o ApiClientCall(slot.fetch).message

\* the remote service answered a call with 429 and an error message
C17_Witness ==
    \E c \in SourceCalls :
        /\ calls[c].pc = "done"
        /\ calls[c].fetch.status = 429
        /\ calls[c].outcome = Throw("API rate limit exceeded")

\* the message of the failure a non-success response is turned into
StatusMessage(f) ==
    IF f.body = "error" /\ f.errmsg # "" THEN f.errmsg
    ELSE "API error: " \o ToString(f.status)

\* the calls whose remote call was answered with a non-success status
Refused ==
    {c \in SourceCalls : /\ calls[c].pc = "done"
                         /\ calls[c].fetch.net = "ok"
                         /\ ~calls[c].fetch.ok}

\* C18 as written: every non-success response, whatever its body, makes the
\* client fail with the body's error.message when present and with
\* "API error: <status>" otherwise.
C18_AnyBody ==
    \A c \in Refused : calls[c].outcome = Throw(StatusMessage(calls[c].fetch))

\* C18: a non-success response whose body parses as a JSON object makes the
\* client fail with the body's error.message when present and with
\* "API error: <status>" otherwise; one whose body does not parse makes it
\* fail with the parser's message.
C18_ParsedBody ==
    \A c \in Refused :
        /\ calls[c].fetch.body # "invalid" =>
               calls[c].outcome = Throw(StatusMessage(calls[c].fetch))
        /\ calls[c].fetch.body = "invalid" =>
               /\ calls[c].outcome.kind = "throw"
               /\ calls[c].outcome.message = "Unexpected end of JSON input"
               /\ calls[c].outcome.message # StatusMessage(calls[c].fetch)

\* a 500 without an error message and a call that completed with it
C18_Witness ==
    \E c \in Refused :
        /\ calls[c].fetch.status = 500
        /\ calls[c].outcome = Throw("API error: 500")

\* C19: a message submission without a session identifier is rejected with
\* 400; one whose identifier is the protocol session id of no connection in
\* the store is rejected with 404 as session-not-found; any other is handed to
\* the one open connection whose protocol session id is the identifier. The
\* store is left as it was.
C19_MessageRouting ==
    [][event'.op = "MESSAGES" =>
          LET q == event'.sid
              owners == {c \in DOMAIN sseTransports : SseSessionId(c) = q}
          IN  /\ q = 0 =>
                     /\ event'.resp.status = HTTP_BAD_REQUEST
                     /\ event'.resp.message = "Missing sessionId query parameter"
                     /\ event'.resp.by = 0
              /\ (q # 0 /\ owners = {}) =>
                     /\ event'.resp.status = HTTP_NOT_FOUND
                     /\ event'.resp.message
                            = "Session not found. Connect via GET /sse first."
                     /\ event'.resp.by = 0
              /\ (q # 0 /\ owners # {}) =>
                     /\ owners = {event'.resp.by}
                     /\ event'.resp.by \in sseStreams
                     /\ sseTransports[event'.resp.by] = q
              /\ sseTransports' = sseTransports]_vars

\* a message was handed to an open connection
C19_Witness ==
    /\ event.op = "MESSAGES"
    /\ event.resp.by \in DOMAIN sseTransports
    /\ event.sid = SseSessionId(event.resp.by)

\* the connections that were opened and whose stream has closed
SseClosed == (1..sseOpened) \ sseStreams

KeyMissing == Falsy(startup.apiKey)

\* C21: when the API key is absent at startup, the first thing the process
\* does is exit with status 1; it never listens, never connects a transport,
\* never creates a server and never handles a request.
C21_MissingKeyExits ==
    /\ [](KeyMissing =>
            /\ ~listening
            /\ startup.pc \in {"load", "exited"}
            /\ exitCode \in {-1, 1}
            /\ (startup.pc = "exited") <=> (exitCode = 1)
            /\ serversCreated = 0
            /\ sseOpened = 0
            /\ Created = {}
            /\ event.op \in {"START", "CONFIG"})
    /\ [][(KeyMissing /\ startup.pc = "load") =>
              /\ exitCode' = 1
              /\ ~listening'
              /\ event'.op = "CONFIG"]_vars

\* the HTTP entry point was started without the variable and has exited
C21_Witness ==
    /\ startup.entry = "http-server"
    /\ startup.apiKey = Undefined
    /\ exitCode = 1

\* C22: the output has one chunk per response chunk, in response order, with
\* indices 0, 1, 2, ...; the preview of a text of at most 100 units is the
\* text, and that of a longer one is its first 100 units followed by "...",
\* 103 units in all.
C22_PreviewAndIndices ==
    embed.pc = "formatted" =>
        /\ Len(embed.out) = Len(embed.chunks)
        /\ \A k \in 1..Len(embed.chunks) :
               LET text == embed.chunks[k]
                   preview == embed.out[k].text_preview
               IN  /\ embed.out[k].index = k - 1
                   /\ Len(text) <= 100 => preview = text
                   /\ Len(text) > 100 =>
                          /\ Len(preview) = 103
                          /\ \A i \in 1..100 : preview[i] = text[i]
                          /\ \A i \in 101..103 : preview[i] = "."

\* a response of three chunks was formatted: one of exactly 100 units, one of
\* 150 and a short one
C22_Witness ==
    /\ embed.pc = "formatted"
    /\ Len(embed.chunks) = 3
    /\ \E i, j, k \in 1..3 :
           /\ Len(embed.chunks[i]) = 100
           /\ Len(embed.chunks[j]) = 150
           /\ Len(embed.chunks[k]) = 7

\* handlers that check required strings before their remote call
GuardedHandlers ==
    {"handleRiskClassify", "handleTaskRouting", "handleAutoRecovery",
     "handleResilienceExecute", "handleAgentMemory", "handleAgentTask", "handleFileLock"}

\* the value is absent, not a string, or the empty string
NotANonEmptyString(v) == v.t # "string" \/ v.s = ""

C24_SuppliedForwarded ==
    \A c \in SourceCalls :
        LET slot == calls[c]
        IN  slot.apiCalls = 1 =>
                \A f \in DOMAIN DeclaredDefaults(slot.name) :
                    /\ (Get(slot.args, f) # Undefined /\ Permits(f, Get(slot.args, f)))
                           => slot.request.body[f] = Get(slot.args, f)
                    /\ Get(slot.args, f) = Undefined
                           => slot.request.body[f] = DeclaredDefaults(slot.name)[f]

Active == {tr \in Live : ~transports[tr].closeInvoked}

\* C26: in every reachable state the store holds exactly the live sessions:
\* every entry maps a token to the initialized transport that generated it,
\* and every initialized session that nothing has closed is in the store under
\* its token.
C26_StoreEqualsLive ==
    /\ \A tok \in DOMAIN streamableTransports :
           /\ streamableTransports[tok] \in Live
           /\ transports[streamableTransports[tok]].sessionId = tok
    /\ \A tr \in Active :
           /\ transports[tr].sessionId \in DOMAIN streamableTransports
           /\ streamableTransports[transports[tr].sessionId] = tr

\* C30: whatever requests interleave with shutdown, every session a step of
\* shutdown takes out of the store has had close invoked on its transport,
\* and once shutdown has begun no session that nothing has closed is out of
\* the reach of its own token.
C30_ShutdownDropsNoLiveSession ==
    /\ [][event'.op \in {"SHUTDOWN", "SHUTDOWN_SWEPT"} =>
              \A tok \in DOMAIN streamableTransports \ DOMAIN streamableTransports' :
                  transports'[streamableTransports[tok]].closeInvoked]_vars
    /\ [](shutdownPc # "running" =>
              \A tr \in Active :
                  GetResponse(streamableTransports, transports[tr].sessionId)
                      = HandledBy(tr))

\* C27: every request on the streaming binding is answered unless the process
\* exits first: a submit or stream request is rejected or handed to a
\* transport at once, an initialize request is handed to its new transport
\* once server.connect has resumed, and a termination request for a known
\* token is acknowledged.
C27_EveryRequestAnswered ==
    /\ [](event.op \in {"POST", "GET"} =>
              \/ event.resp.by # 0
              \/ event.resp.status = HTTP_BAD_REQUEST
              \/ event.op = "POST" /\ event.init /\ event.sid = NoToken)
    /\ \A tr \in TransportIds :
           (transports[tr].created /\ ~transports[tr].connected)
               ~> (transports[tr].connected \/ ~Running)
    /\ \A tok \in Tokens :
           (event.op = "DELETE" /\ event.sid = tok /\ event.resp.by # 0)
               ~> (tok \in terminated \/ ~Running)

\* C28: the registry lists 36 operations under pairwise distinct names; every
\* registered name is bound to a handler, so a call to it never completes as
\* an unknown tool; and every name the switch has a case for is registered.
C28_RegistryMatchesDispatcher ==
    /\ (\A c \in CallIds : calls[c].pc = "idle") =>
           /\ Len(ToolNames) = 36
           /\ Cardinality(Registered) = 36
           /\ \A i, j \in DOMAIN ToolNames : ToolNames[i] = ToolNames[j] => i = j
           /\ \A name \in Registered : HandlerOf(name) # "default"
           /\ Len(CaseLabels) = 36
           /\ \A i \in DOMAIN CaseLabels :
                  /\ CaseLabels[i] \in Registered
                  /\ HandlerOf(CaseLabels[i]) # "default"
           /\ \A name \in UnknownNames : HandlerOf(name) = "default"
    /\ \A c \in DoneCalls :
           /\ calls[c].name \in Registered =>
                  /\ calls[c].handler # "default"
                  /\ calls[c].outcome # Throw("Unknown tool: " \o calls[c].name)
           /\ calls[c].handler # "default" => calls[c].name \in Registered

\* a call to a governance tool, the last kind added to the registry, has
\* completed through its handler
C28_Witness ==
    \E c \in DoneCalls :
        /\ calls[c].name = "aci_classify_decision"
        /\ calls[c].handler = "handleAciClassify"

\* C29: an initialize request that carries a token that is not in the store
\* gets the transport-level rejection and creates no transport, no server and
\* no store entry; a transport is created only by an initialize request
\* without a token, and a store entry only when such a request resumes.
C29_StaleInitializeRejected ==
    /\ [][(/\ event'.op = "POST"
           /\ event'.init
           /\ event'.sid # NoToken
           /\ event'.sid \notin DOMAIN streamableTransports)
          => /\ event'.resp = PostRejection
             /\ transports' = transports
             /\ serversCreated' = serversCreated
             /\ tokensIssued' = tokensIssued
             /\ streamableTransports' = streamableTransports]_vars
    /\ [][Created' # Created =>
              /\ event'.op = "POST"
              /\ event'.init
              /\ event'.sid = NoToken
              /\ event'.resp = NoResponse]_vars
    /\ [][~(DOMAIN streamableTransports' \subseteq DOMAIN streamableTransports) =>
              /\ event'.op = "POST_RESUME"
              /\ event'.resp.by \in Created
              /\ ~transports[event'.resp.by].connected]_vars

\* an initialize request carrying the token of a terminated session was
\* rejected while another session is open
C29_Witness ==
    /\ event.op = "POST"
    /\ event.init
    /\ event.sid \in terminated
    /\ event.resp = PostRejection
    /\ streamableTransports # EmptyMap

====
